---- MODULE Spec2Model ----
(***************************************************************************)
(* POX OpenFlow manager (src/src/mcp_server_pox/server.py): the JSON-RPC   *)
(* client _execute_of_command, the facade operations of                    *)
(* POXOpenFlowManager, the memo synthesizer, the resource reader and the   *)
(* append_insight tool, as a state machine over the manager's session      *)
(* state (configs, insights).                                              *)
(*                                                                         *)
(* Python values are modelled as JSON values of one uniform record shape   *)
(* [kind, text, items, keys, map]:                                         *)
(*   None  -> kind "null"                                                  *)
(*   str   -> kind "str",  text the characters                             *)
(*   int   -> kind "num",  text the decimal digits                         *)
(*   list  -> kind "list", items the elements                              *)
(*   dict  -> kind "dict", keys the keys in insertion order, map the       *)
(*            key -> value function                                        *)
(* Strings are plain ASCII without quotes, backslashes or line breaks, so  *)
(* json.dumps needs no escaping on them.                                   *)
(***************************************************************************)
EXTENDS Integers, Sequences, FiniteSets, TLC

VARIABLES
  configs,    \* self.configs: the Applied-Configuration sequence
  insights,   \* self.insights: the Insight sequence
  call,       \* the invocation that ran last: operation and arguments
  wire,       \* the HTTP requests that invocation sent, in order
  http,       \* the HTTP exchange that answered its request (NoExchange if none)
  outcome,    \* what _execute_of_command returned to it (NoOutcome if not called)
  ret,        \* how it ended: [raised, value, lines]
  notes,      \* resource-updated notifications it sent
  tasks       \* the tool invocations the event loop runs concurrently

vars == <<configs, insights, call, wire, http, outcome, ret, notes, tasks>>

(***************************************************************************)
(* Bounds of the model.                                                    *)
(***************************************************************************)
MaxConfigs == 6
MaxInsights == 6
RpcMaxConfigs == 2
RpcMaxInsights == 1
MaxTasks == 2

(***************************************************************************)
(* Program constants.                                                      *)
(***************************************************************************)
HttpOk == 200
RpcId == 1
RecentLimit == 5
TruncLen == 100
JsonIndent == 2
PoxServerUrl == "http://127.0.0.1:8000"
Timestamp == "__current_time__"

(***************************************************************************)
(* JSON / Python values.                                                   *)
(***************************************************************************)
EmptyMap == [k \in {} |-> 0]

JNull == [kind |-> "null", text |-> "", items |-> <<>>, keys |-> <<>>, map |-> EmptyMap]
JStr(s) == [kind |-> "str", text |-> s, items |-> <<>>, keys |-> <<>>, map |-> EmptyMap]
JNum(s) == [kind |-> "num", text |-> s, items |-> <<>>, keys |-> <<>>, map |-> EmptyMap]
JList(xs) == [kind |-> "list", text |-> "", items |-> xs, keys |-> <<>>, map |-> EmptyMap]
JDict(ks, m) == [kind |-> "dict", text |-> "", items |-> <<>>, keys |-> ks, map |-> m]
JEmptyDict == JDict(<<>>, EmptyMap)
JEmptyList == JList(<<>>)

\* No value at all: the invocation made no RPC call, or raised instead of returning.
NoValue == [kind |-> "none", text |-> "", items |-> <<>>, keys |-> <<>>, map |-> EmptyMap]
NoOutcome == NoValue

IsDict(v) == v.kind = "dict"
HasKey(v, k) == IsDict(v) /\ k \in DOMAIN v.map

\* dict literals written in insertion order
Dict1(k1, v1) == JDict(<<k1>>, k1 :> v1)
Dict2(k1, v1, k2, v2) == JDict(<<k1, k2>>, k1 :> v1 @@ k2 :> v2)
\* d[k] = v on a dict: a new key goes last, an existing key keeps its place
DictSet(d, k, v) ==
  JDict(IF k \in DOMAIN d.map THEN d.keys ELSE Append(d.keys, k),
        [x \in DOMAIN d.map \cup {k} |-> IF x = k THEN v ELSE d.map[x]])

\* bool(v)
Truthy(v) ==
  CASE v.kind = "null" -> FALSE
    [] v.kind = "str" -> v.text # ""
    [] v.kind = "num" -> v.text # "0"
    [] v.kind = "list" -> v.items # <<>>
    [] v.kind = "dict" -> v.keys # <<>>
    [] OTHER -> FALSE

\* sub in s, on strings
StrContains(s, sub) ==
  \E i \in 1..(Len(s) - Len(sub) + 1) : SubSeq(s, i, i + Len(sub) - 1) = sub

\* s[:n]
StrPrefix(s, n) == IF Len(s) <= n THEN s ELSE SubSeq(s, 1, n)

\* s.replace(old, ""), for a non-empty old
RECURSIVE StrRemoveAll(_, _)
StrRemoveAll(s, old) ==
  IF Len(s) < Len(old) THEN s
  ELSE IF SubSeq(s, 1, Len(old)) = old
       THEN StrRemoveAll(SubSeq(s, Len(old) + 1, Len(s)), old)
       ELSE SubSeq(s, 1, 1) \o StrRemoveAll(SubSeq(s, 2, Len(s)), old)

\* the part of s before the first occurrence of sep (all of s if there is none)
RECURSIVE StrBefore(_, _)
StrBefore(s, sep) ==
  IF Len(s) < Len(sep) THEN s
  ELSE IF SubSeq(s, 1, Len(sep)) = sep THEN ""
       ELSE SubSeq(s, 1, 1) \o StrBefore(SubSeq(s, 2, Len(s)), sep)

\* A Python evaluation: either a value, or the exception it raised.
Returned(v) == [raised |-> "", value |-> v]
Raised(e) == [raised |-> e, value |-> NoValue]

\* key in v: whether it holds, or the exception the test raised
PyIn(key, v) ==
  CASE v.kind = "dict" -> [raised |-> "", holds |-> key \in DOMAIN v.map]
    [] v.kind = "list" ->
         [raised |-> "", holds |-> \E i \in 1..Len(v.items) : v.items[i] = JStr(key)]
    [] v.kind = "str" -> [raised |-> "", holds |-> StrContains(v.text, key)]
    [] OTHER -> [raised |-> "TypeError", holds |-> FALSE]

\* v.get(key, default)
PyGet(v, key, default) ==
  IF v.kind = "dict"
  THEN Returned(IF key \in DOMAIN v.map THEN v.map[key] ELSE default)
  ELSE Raised("AttributeError")

\* the elements a for loop over v visits
PyIter(v) ==
  CASE v.kind = "list" -> Returned(JList(v.items))
    [] v.kind = "dict" -> Returned(JList([i \in 1..Len(v.keys) |-> JStr(v.keys[i])]))
    [] v.kind = "str" ->
         Returned(JList([i \in 1..Len(v.text) |-> JStr(SubSeq(v.text, i, i))]))
    [] OTHER -> Raised("TypeError")

RECURSIVE JoinStr(_, _)
JoinStr(parts, sep) ==
  IF parts = <<>> THEN ""
  ELSE IF Len(parts) = 1 THEN parts[1]
  ELSE parts[1] \o sep \o JoinStr(Tail(parts), sep)

\* json.dumps(v)
RECURSIVE JsonDumps(_)
JsonDumps(v) ==
  CASE v.kind = "null" -> "null"
    [] v.kind = "str" -> "\"" \o v.text \o "\""
    [] v.kind = "num" -> v.text
    [] v.kind = "list" ->
         "[" \o JoinStr([i \in 1..Len(v.items) |-> JsonDumps(v.items[i])], ", ") \o "]"
    [] v.kind = "dict" ->
         "{" \o JoinStr([i \in 1..Len(v.keys) |->
                           "\"" \o v.keys[i] \o "\": " \o JsonDumps(v.map[v.keys[i]])],
                        ", ") \o "}"

RECURSIVE Spaces(_)
Spaces(n) == IF n <= 0 THEN "" ELSE " " \o Spaces(n - 1)

\* json.dumps(v, indent=2), at nesting depth `level`
RECURSIVE JsonDumpsIndent(_, _)
JsonDumpsIndent(v, level) ==
  LET pad == "\n" \o Spaces(JsonIndent * (level + 1))
      close == "\n" \o Spaces(JsonIndent * level)
  IN CASE v.kind = "list" ->
            IF v.items = <<>> THEN "[]"
            ELSE "[" \o pad
                 \o JoinStr([i \in 1..Len(v.items) |-> JsonDumpsIndent(v.items[i], level + 1)],
                            "," \o pad)
                 \o close \o "]"
       [] v.kind = "dict" ->
            IF v.keys = <<>> THEN "{}"
            ELSE "{" \o pad
                 \o JoinStr([i \in 1..Len(v.keys) |->
                               "\"" \o v.keys[i] \o "\": "
                               \o JsonDumpsIndent(v.map[v.keys[i]], level + 1)],
                            "," \o pad)
                 \o close \o "}"
       [] OTHER -> JsonDumps(v)

\* repr(v)
RECURSIVE PyRepr(_)
PyRepr(v) ==
  CASE v.kind = "null" -> "None"
    [] v.kind = "str" -> "'" \o v.text \o "'"
    [] v.kind = "num" -> v.text
    [] v.kind = "list" ->
         "[" \o JoinStr([i \in 1..Len(v.items) |-> PyRepr(v.items[i])], ", ") \o "]"
    [] v.kind = "dict" ->
         "{" \o JoinStr([i \in 1..Len(v.keys) |->
                           "'" \o v.keys[i] \o "': " \o PyRepr(v.map[v.keys[i]])],
                        ", ") \o "}"

\* str(v), as an f-string formats it
PyStr(v) == IF v.kind = "str" THEN v.text ELSE PyRepr(v)

(***************************************************************************)
(* The controller side of the wire: what one HTTP POST can come back as.   *)
(* transport "fail": requests.post raised (exc is the exception message);  *)
(* transport "ok": a response with a status code and a body text.          *)
(***************************************************************************)
NoExchange == [transport |-> "none", status |-> 0, text |-> "", exc |-> ""]
TransportFailure(msg) == [transport |-> "fail", status |-> 0, text |-> "", exc |-> msg]
Response(status, text) == [transport |-> "ok", status |-> status, text |-> text, exc |-> ""]

BodySwitches == "{\"result\": [{\"dpid\": \"00-00-00-00-00-01\"}, {}]}"
BodyError == "{\"error\": \"No such switch\", \"details\": \"dpid 9\"}"
BodyBoth == "{\"result\": {\"status\": \"partial\"}, \"error\": \"1 flow rejected\"}"
BodyEmptyDict == "{}"
BodyList == "[]"
BodyString == "\"error: busy\""
BodyNumber == "5"
BodyHtml == "<html>Bad Gateway</html>"
BodyPlain == "Internal Server Error"

JsonDecodeErrorMsg == "Expecting value: line 1 column 1 (char 0)"
ConnectionRefusedMsg == "Connection refused"

\* response.json() on the body texts above: the decoded value, or the decoder's failure
JsonLoads(text) ==
  CASE text = BodySwitches ->
         [ok |-> TRUE, msg |-> "",
          value |-> Dict1("result",
                          JList(<<Dict1("dpid", JStr("00-00-00-00-00-01")), JEmptyDict>>))]
    [] text = BodyError ->
         [ok |-> TRUE, msg |-> "",
          value |-> Dict2("error", JStr("No such switch"), "details", JStr("dpid 9"))]
    [] text = BodyBoth ->
         [ok |-> TRUE, msg |-> "",
          value |-> Dict2("result", Dict1("status", JStr("partial")),
                          "error", JStr("1 flow rejected"))]
    [] text = BodyEmptyDict -> [ok |-> TRUE, msg |-> "", value |-> JEmptyDict]
    [] text = BodyList -> [ok |-> TRUE, msg |-> "", value |-> JEmptyList]
    [] text = BodyString -> [ok |-> TRUE, msg |-> "", value |-> JStr("error: busy")]
    [] text = BodyNumber -> [ok |-> TRUE, msg |-> "", value |-> JNum("5")]
    [] OTHER -> [ok |-> FALSE, msg |-> JsonDecodeErrorMsg, value |-> NoValue]

Exchanges ==
  {TransportFailure(ConnectionRefusedMsg)}
  \cup {Response(HttpOk, b) : b \in {BodySwitches, BodyError, BodyBoth, BodyEmptyDict,
                                     BodyList, BodyString, BodyNumber, BodyHtml}}
  \cup {Response(500, BodyPlain), Response(404, BodySwitches)}

MemoExchanges ==
  {TransportFailure(ConnectionRefusedMsg), Response(HttpOk, BodySwitches),
   Response(HttpOk, BodyError), Response(HttpOk, BodyNumber)}

(***************************************************************************)
(* RPC client.                                                             *)
(***************************************************************************)
ErrorOutcome(error, details) == Dict2("error", JStr(error), "details", JStr(details))

\* the POST of line 68: URL and JSON payload
RpcRequest(method, params) ==
  [url |-> PoxServerUrl \o "/OF/",
   payload |-> JDict(<<"method", "params", "id">>,
                     "method" :> JStr(method)
                     @@ "params" :> (IF Truthy(params) THEN params ELSE JEmptyDict)
                     @@ "id" :> JNum(ToString(RpcId)))]

\* line 70 on a 200 response: the decoded body verbatim, or the handler of line 76 on
\* the decoder's exception
DecodedOutcome(decoded) ==
  IF decoded.ok THEN decoded.value ELSE ErrorOutcome("Connection Error", decoded.msg)

\* Mutant: the body is decoded whatever the status, so a non-200 body's result surfaces.
execute_of_command_any_status(method, params, ex) ==
  [sent |-> <<RpcRequest(method, params)>>,
   outcome |->
     IF ex.transport = "fail" THEN ErrorOutcome("Connection Error", ex.exc)
     ELSE DecodedOutcome(JsonLoads(ex.text))]

\* Mutant: one retry after a transport failure or a non-200 status.
execute_of_command_retry(method, params, ex) ==
  [sent |-> IF ex.transport = "fail" \/ ex.status # HttpOk
            THEN <<RpcRequest(method, params), RpcRequest(method, params)>>
            ELSE <<RpcRequest(method, params)>>,
   outcome |->
     IF ex.transport = "fail" THEN ErrorOutcome("Connection Error", ex.exc)
     ELSE IF ex.status = HttpOk THEN DecodedOutcome(JsonLoads(ex.text))
     ELSE ErrorOutcome("HTTP Error: " \o ToString(ex.status), ex.text)]

\* _execute_of_command answered by exchange ex: the requests sent and the outcome
execute_of_command(method, params, ex) ==
  [sent |-> <<RpcRequest(method, params)>>,
   outcome |->
     IF ex.transport = "fail" THEN ErrorOutcome("Connection Error", ex.exc)
     ELSE IF ex.status = HttpOk THEN DecodedOutcome(JsonLoads(ex.text))
     ELSE ErrorOutcome("HTTP Error: " \o ToString(ex.status), ex.text)]

(***************************************************************************)
(* Controller facade.  Each operator is one method run against exchange    *)
(* ex: the requests it sent, the raw outcome, what it returned or raised.  *)
(***************************************************************************)
\* return result.get("result", default)
Unwrap(result, default) ==
  [sent |-> result.sent, outcome |-> result.outcome,
   res |-> PyGet(result.outcome, "result", default)]

get_switches(ex) == Unwrap(execute_of_command("get_switches", JNull, ex), JEmptyList)

get_switch_desc(dpid, ex) ==
  Unwrap(execute_of_command("get_switch_desc", Dict1("dpid", JStr(dpid)), ex), JEmptyDict)

\* the params dict of get_flow_stats, lines 90-96
WithMatch(params, match) ==
  IF Truthy(match) THEN DictSet(params, "match", match) ELSE params
WithTableId(params, table_id) ==
  IF table_id # JNull THEN DictSet(params, "table_id", table_id) ELSE params
WithOutPort(params, out_port) ==
  IF out_port # JNull THEN DictSet(params, "out_port", out_port) ELSE params
FlowStatsParams(dpid, match, table_id, out_port) ==
  WithOutPort(WithTableId(WithMatch(Dict1("dpid", JStr(dpid)), match), table_id), out_port)

get_flow_stats(dpid, match, table_id, out_port, ex) ==
  Unwrap(execute_of_command("get_flow_stats",
                            FlowStatsParams(dpid, match, table_id, out_port), ex),
         JEmptyList)

AppliedConfiguration(dpid, flows) ==
  [dpid |-> dpid, flows |-> flows, timestamp |-> Timestamp]

\* Mutant: the configuration is saved without looking at the outcome.
SaveAlwaysAndUnwrap(cfgs, dpid, flows, result, hasError) ==
  [sent |-> result.sent, outcome |-> result.outcome,
   res |-> PyGet(result.outcome, "result", JEmptyDict),
   configs |-> Append(cfgs, AppliedConfiguration(dpid, flows))]

\* lines 107-114, given the RPC result and the evaluation of `"error" not in result`
SaveAndUnwrap(cfgs, dpid, flows, result, hasError) ==
  IF hasError.raised # ""
  THEN [sent |-> result.sent, outcome |-> result.outcome,
        res |-> Raised(hasError.raised), configs |-> cfgs]
  ELSE [sent |-> result.sent, outcome |-> result.outcome,
        res |-> PyGet(result.outcome, "result", JEmptyDict),
        configs |-> IF ~hasError.holds
                    THEN Append(cfgs, AppliedConfiguration(dpid, flows))
                    ELSE cfgs]

SetTableResult(cfgs, dpid, flows, result) ==
  SaveAndUnwrap(cfgs, dpid, flows, result, PyIn("error", result.outcome))

\* set_table on history cfgs: also the history it leaves
set_table(cfgs, dpid, flows, ex) ==
  SetTableResult(cfgs, dpid, flows,
                 execute_of_command("set_table",
                                    Dict2("dpid", JStr(dpid), "flows", JList(flows)), ex))

(***************************************************************************)
(* Memo synthesizer.  The memo text is kept as its lines: every piece the  *)
(* code appends ends in a line break.  The module is ASCII: the header's   *)
(* two emoji, U+1F4CA, are written as the six-character escape \U0001f4ca   *)
(* (a backslash, a U and eight hex digits), one for each emoji.            *)
(***************************************************************************)
MemoHeader == "\\U0001f4ca Network Configuration Memo \\U0001f4ca"
TopologyTitle == "Network Topology:"
ConfigsTitle == "Recent Flow Configurations:"
InsightsTitle == "Network Insights:"

RECURSIVE Flatten(_)
Flatten(seqs) == IF seqs = <<>> THEN <<>> ELSE Head(seqs) \o Flatten(Tail(seqs))

\* Mutant: the window is taken from the front of the history, configs[:5].
RecentConfigsOldest(cfgs) ==
  IF Len(cfgs) <= RecentLimit THEN cfgs ELSE SubSeq(cfgs, 1, RecentLimit)

\* self.configs[-5:]
RecentConfigs(cfgs) ==
  IF Len(cfgs) <= RecentLimit THEN cfgs
  ELSE SubSeq(cfgs, Len(cfgs) - RecentLimit + 1, Len(cfgs))

\* lines 130-132 for the config at 0-based position idx of the slice
ConfigLines(config, idx) ==
  <<"Configuration " \o ToString(idx + 1) \o " - Switch " \o config.dpid \o ":">>
  \o [i \in 1..Len(config.flows) |->
        "  Flow " \o ToString(i) \o ": "
        \o StrPrefix(JsonDumps(config.flows[i]), TruncLen) \o "..."]

\* lines 129-132 over the slice
RenderConfigs(recent) ==
  Flatten([k \in 1..Len(recent) |-> ConfigLines(recent[k], k - 1)])

\* lines 127-132
ConfigSection(cfgs) ==
  IF cfgs = <<>> THEN <<>>
  ELSE <<"", ConfigsTitle>> \o RenderConfigs(RecentConfigs(cfgs))

\* Mutant: the insights are windowed like the configurations, insights[-5:].
InsightSectionRecent(ins) ==
  IF ins = <<>> THEN <<>>
  ELSE <<"", InsightsTitle>>
       \o [i \in 1..Len(RecentConfigs(ins)) |-> "- " \o RecentConfigs(ins)[i]]

\* lines 135-138
InsightSection(ins) ==
  IF ins = <<>> THEN <<>>
  ELSE <<"", InsightsTitle>> \o [i \in 1..Len(ins) |-> "- " \o ins[i]]

\* the switches the loop of line 123 visits, or the exception before it starts
SwitchIter(sw) == IF sw.res.raised # "" THEN Raised(sw.res.raised) ELSE PyIter(sw.res.value)

\* switch.get('dpid', 'unknown') on the i-th switch
SwitchDpid(iter, i) == PyGet(iter.value.items[i], "dpid", JStr("unknown"))

\* the exception lines 122-124 raise, "" if none
TopologyRaised(iter) ==
  IF iter.raised # "" THEN iter.raised
  ELSE IF \E i \in 1..Len(iter.value.items) : SwitchDpid(iter, i).raised # ""
       THEN "AttributeError"
       ELSE ""

\* lines 118-124
TopologySection(iter) ==
  <<MemoHeader, "", TopologyTitle>>
  \o [i \in 1..Len(iter.value.items) |-> "- Switch DPID: " \o PyStr(SwitchDpid(iter, i).value)]

MemoResult(cfgs, ins, sw, iter, raised) ==
  [sent |-> sw.sent, outcome |-> sw.outcome, raised |-> raised,
   lines |-> IF raised # "" THEN <<>>
             ELSE TopologySection(iter) \o ConfigSection(cfgs) \o InsightSection(ins)]

MemoOfIter(cfgs, ins, sw, iter) == MemoResult(cfgs, ins, sw, iter, TopologyRaised(iter))

MemoOfSwitches(cfgs, ins, sw) == MemoOfIter(cfgs, ins, sw, SwitchIter(sw))

\* _synthesize_network_memo on history cfgs and insights ins
synthesize_network_memo(cfgs, ins, ex) == MemoOfSwitches(cfgs, ins, get_switches(ex))

(***************************************************************************)
(* Inputs.                                                                 *)
(***************************************************************************)
FlowHub ==
  Dict2("match", JEmptyDict,
        "actions", JList(<<Dict2("type", JStr("OFPAT_OUTPUT"), "port", JStr("OFPP_ALL"))>>))
FlowLong ==
  Dict2("match",
        JDict(<<"dl_type", "nw_src", "nw_dst", "in_port">>,
              "dl_type" :> JStr("0x0800") @@ "nw_src" :> JStr("10.0.0.1")
              @@ "nw_dst" :> JStr("10.0.0.2") @@ "in_port" :> JNum("1")),
        "actions", JList(<<Dict2("type", JStr("OFPAT_OUTPUT"), "port", JNum("2"))>>))

TableInputs == {[dpid |-> "1", flows |-> <<FlowHub>>], [dpid |-> "2", flows |-> <<>>]}

\* the k-th stored configuration of the long-history runs: switch k, flow lists alternating
MemoTableInput(k) ==
  [dpid |-> ToString(k), flows |-> IF k % 2 = 1 THEN <<FlowLong, FlowHub>> ELSE <<FlowHub>>]

Dpids == {"1"}
Matches == {JNull, JEmptyDict, Dict1("in_port", JNum("1"))}
TableIds == {JNull, JStr("")}
OutPorts == {JNull, JStr("1")}
ToolArguments == {JNull, JEmptyDict, Dict1("insight", JStr("x"))}

\* the k-th stored insight of the long-history runs: x, y, x, y, ... (duplicates included)
MemoInsight(k) == IF k % 2 = 1 THEN "x" ELSE "y"
MemoToolArguments(k) == {JNull, Dict1("insight", JStr(MemoInsight(k)))}
FlowStatsInputs ==
  {[dpid |-> d, match |-> m, table_id |-> t, out_port |-> o, ex |-> ex] :
     d \in Dpids, m \in Matches, t \in TableIds, o \in OutPorts,
     ex \in {Response(HttpOk, BodySwitches), Response(500, BodyPlain)}}
  \cup {[dpid |-> d, match |-> JNull, table_id |-> JNull, out_port |-> JNull, ex |-> ex] :
          d \in Dpids, ex \in Exchanges}
Uris == {"pox://network-config", "pox://topology", "pox://flows", "http://topology"}

(***************************************************************************)
(* Resource reader and the append_insight tool.                            *)
(***************************************************************************)
\* lines 173 and 184: ValueError, raised before any request
RefusedRead ==
  [sent |-> <<>>, asked |-> FALSE, outcome |-> NoOutcome,
   raised |-> "ValueError", lines |-> <<>>, text |-> ""]

\* line 178
MemoRead(memo) ==
  [sent |-> memo.sent, asked |-> TRUE, outcome |-> memo.outcome,
   raised |-> memo.raised, lines |-> memo.lines, text |-> ""]

\* lines 180-181
TopologyRead(sw) ==
  [sent |-> sw.sent, asked |-> TRUE, outcome |-> sw.outcome,
   raised |-> sw.res.raised, lines |-> <<>>,
   text |-> IF sw.res.raised # "" THEN ""
            ELSE "Network Topology:\n" \o JsonDumpsIndent(sw.res.value, 0)]

\* lines 177-184
ReadPath(cfgs, ins, path, ex) ==
  IF path = "network-config" THEN MemoRead(synthesize_network_memo(cfgs, ins, ex))
  ELSE IF path = "topology" THEN TopologyRead(get_switches(ex))
  ELSE RefusedRead

\* handle_read_resource(uri)
handle_read_resource(cfgs, ins, uri, ex) ==
  IF StrBefore(uri, "://") # "pox" THEN RefusedRead
  ELSE ReadPath(cfgs, ins, StrRemoveAll(uri, "pox://"), ex)

\* Mutant: the new insight replaces the stored ones.
append_insight_overwrite(ins, arguments) ==
  IF ~Truthy(arguments) \/ ~PyIn("insight", arguments).holds
  THEN [insights |-> ins, awaits |-> FALSE, text |-> "Error: Missing insight argument"]
  ELSE [insights |-> <<arguments.map["insight"].text>>, awaits |-> TRUE,
        text |-> "Network insight added to memo"]

\* the append_insight branch of handle_call_tool up to its await (line 429), or to
\* its return if the arguments are refused: the insights it leaves, whether it goes on
\* to the await, and the text it returns if nothing fails from there on
append_insight(ins, arguments) ==
  IF ~Truthy(arguments) \/ ~PyIn("insight", arguments).holds
  THEN [insights |-> ins, awaits |-> FALSE, text |-> "Error: Missing insight argument"]
  ELSE [insights |-> Append(ins, arguments.map["insight"].text), awaits |-> TRUE,
        text |-> "Network insight added to memo"]

(***************************************************************************)
(* Tool dispatcher handle_call_tool.  A handler is a coroutine: it runs    *)
(* without interruption up to its one suspension point, the await of       *)
(* send_resource_updated (lines 418 and 429), and from there to its        *)
(* return.  requests.post is a blocking call, not a suspension point.      *)
(***************************************************************************)
SendFailureMsg == "session closed"

\* type(v).__name__
PyTypeName(v) ==
  CASE v.kind = "null" -> "NoneType"
    [] v.kind = "str" -> "str"
    [] v.kind = "num" -> "int"
    [] v.kind = "list" -> "list"
    [] v.kind = "dict" -> "dict"
    [] OTHER -> "object"

\* str(e) of the exception a facade method raised on outcome v
ExcMessage(raised, v) ==
  IF raised = "AttributeError"
  THEN "'" \o PyTypeName(v) \o "' object has no attribute 'get'"
  ELSE "argument of type '" \o PyTypeName(v) \o "' is not iterable"

\* `not arguments or k not in arguments`, for some k of keys
MissingAny(arguments, keys) ==
  ~Truthy(arguments) \/ \E k \in keys : ~PyIn(k, arguments).holds

\* arguments.get(k)
ArgOrNone(arguments, k) == PyGet(arguments, k, JNull).value

\* Mutant: the ValueError of a refused invocation is not caught.
ToolRefusedRaises(cfgs, ins, msg) ==
  [configs |-> cfgs, insights |-> ins, sent |-> <<>>, asked |-> FALSE,
   outcome |-> NoOutcome, awaits |-> FALSE, raised |-> "ValueError", text |-> ""]

\* raise ValueError(msg) inside the try, and the handler of line 438-439
ToolRefused(cfgs, ins, msg) ==
  [configs |-> cfgs, insights |-> ins, sent |-> <<>>, asked |-> FALSE,
   outcome |-> NoOutcome, awaits |-> FALSE, raised |-> "", text |-> "Error: " \o msg]

\* a facade method was called: its result as indented JSON, or the handler of lines
\* 438-439 on the exception it raised; `awaits`: the handler notifies before returning
ToolAnswered(cfgs, ins, run, awaits) ==
  [configs |-> cfgs, insights |-> ins, sent |-> run.sent, asked |-> TRUE,
   outcome |-> run.outcome, awaits |-> awaits /\ run.res.raised = "", raised |-> "",
   text |-> IF run.res.raised # ""
            THEN "Error: " \o ExcMessage(run.res.raised, run.outcome)
            ELSE JsonDumpsIndent(run.res.value, 0)]

\* lines 415-420
SetTableTool(ins, run) == ToolAnswered(run.configs, ins, run, TRUE)

\* lines 422-429
AppendInsightTool(cfgs, done) ==
  [configs |-> cfgs, insights |-> done.insights, sent |-> <<>>, asked |-> FALSE,
   outcome |-> NoOutcome, awaits |-> done.awaits, raised |-> "", text |-> done.text]

\* handle_call_tool(name, arguments) up to its suspension point (or to its return, if
\* it has none), answered by exchange ex: the session state it leaves, the requests it
\* sent and the text it is about to return
handle_call_tool(cfgs, ins, name, arguments, ex) ==
  CASE name = "get_switches" -> ToolAnswered(cfgs, ins, get_switches(ex), FALSE)
    [] name = "get_switch_desc" ->
         IF MissingAny(arguments, {"dpid"})
         THEN ToolRefused(cfgs, ins, "Missing dpid argument")
         ELSE ToolAnswered(cfgs, ins, get_switch_desc(arguments.map["dpid"].text, ex), FALSE)
    [] name = "get_flow_stats" ->
         IF MissingAny(arguments, {"dpid"})
         THEN ToolRefused(cfgs, ins, "Missing dpid argument")
         ELSE ToolAnswered(cfgs, ins,
                           get_flow_stats(arguments.map["dpid"].text,
                                          ArgOrNone(arguments, "match"),
                                          ArgOrNone(arguments, "table_id"),
                                          ArgOrNone(arguments, "out_port"), ex),
                           FALSE)
    [] name = "set_table" ->
         IF MissingAny(arguments, {"dpid", "flows"})
         THEN ToolRefused(cfgs, ins, "Missing dpid or flows arguments")
         ELSE SetTableTool(ins, set_table(cfgs, arguments.map["dpid"].text,
                                          arguments.map["flows"].items, ex))
    [] name = "append_insight" ->
         IF MissingAny(arguments, {"insight"})
         THEN ToolRefused(cfgs, ins, "Missing insight argument")
         ELSE AppendInsightTool(cfgs, append_insight(ins, arguments))
    [] OTHER -> ToolRefused(cfgs, ins, "Unknown tool: " \o name)

\* what the await of send_resource_updated (lines 418, 429) can come back with:
\*   "sent"       the notification went out and the await returns;
\*   "failed"     the send raises an Exception, which lines 438-439 catch;
\*   "cancelled"  the event loop throws asyncio.CancelledError in at the await; it is
\*                a BaseException, lines 436-439 do not catch it
SendFates == {"sent", "failed", "cancelled"}

\* the rest of the handler, from the await of send_resource_updated on
ToolEnd(run, fate) ==
  [raised |-> IF run.awaits /\ fate = "cancelled" THEN "CancelledError" ELSE run.raised,
   notes |-> IF run.awaits /\ fate = "sent" THEN 1 ELSE 0,
   text |-> IF ~run.awaits \/ fate = "sent" THEN run.text
            ELSE IF fate = "failed" THEN "Error: " \o SendFailureMsg
            ELSE ""]

(***************************************************************************)
(* State machine: one action per invocation of a method or resource read, *)
(* two per invocation of a tool that awaits (see the steps further down).  *)
(***************************************************************************)
NoArgs ==
  [dpid |-> "", flows |-> <<>>, match |-> JNull, table_id |-> JNull,
   out_port |-> JNull, arguments |-> JNull, uri |-> "", name |-> ""]
Call(op, args) == [op |-> op] @@ args

\* how an invocation ended
Ended(raised, value, lines, text) ==
  [raised |-> raised, value |-> value, lines |-> lines, text |-> text]
EndedWith(res) == Ended(res.raised, res.value, <<>>, "")

\* a coroutine of handle_call_tool that has not been started
IdleTask ==
  [pc |-> "idle", name |-> "", arguments |-> JNull, sent |-> <<>>, http |-> NoExchange,
   asked |-> FALSE, outcome |-> NoOutcome, awaits |-> FALSE, raised |-> "", text |-> "",
   notes |-> 0]

Init ==
  /\ configs = <<>>
  /\ insights = <<>>
  /\ call = Call("init", NoArgs)
  /\ wire = <<>>
  /\ http = NoExchange
  /\ outcome = NoOutcome
  /\ ret = Ended("", NoValue, <<>>, "")
  /\ notes = 0
  /\ tasks = [t \in 1..MaxTasks |-> IdleTask]

\* what an invocation of a facade method leaves in call, wire, http, outcome, ret
Facade(c, ex, run) ==
  /\ call' = c
  /\ wire' = run.sent
  /\ http' = ex
  /\ outcome' = run.outcome
  /\ ret' = EndedWith(run.res)
  /\ notes' = 0
  /\ UNCHANGED tasks

GetSwitches(ex) ==
  /\ Facade(Call("get_switches", NoArgs), ex, get_switches(ex))
  /\ UNCHANGED <<configs, insights>>

GetSwitchDesc(dpid, ex) ==
  /\ Facade(Call("get_switch_desc", [NoArgs EXCEPT !.dpid = dpid]), ex,
            get_switch_desc(dpid, ex))
  /\ UNCHANGED <<configs, insights>>

GetFlowStats(dpid, match, table_id, out_port, ex) ==
  /\ Facade(Call("get_flow_stats",
                 [NoArgs EXCEPT !.dpid = dpid, !.match = match,
                                !.table_id = table_id, !.out_port = out_port]),
            ex, get_flow_stats(dpid, match, table_id, out_port, ex))
  /\ UNCHANGED <<configs, insights>>

SetTableDone(c, ex, run) ==
  /\ Facade(c, ex, run)
  /\ configs' = run.configs
  /\ UNCHANGED insights

SetTable(dpid, flows, ex) ==
  SetTableDone(Call("set_table", [NoArgs EXCEPT !.dpid = dpid, !.flows = flows]), ex,
               set_table(configs, dpid, flows, ex))

ReadDone(c, ex, run) ==
  /\ call' = c
  /\ wire' = run.sent
  /\ http' = IF run.asked THEN ex ELSE NoExchange
  /\ outcome' = run.outcome
  /\ ret' = Ended(run.raised, NoValue, run.lines, run.text)
  /\ notes' = 0
  /\ UNCHANGED <<configs, insights, tasks>>

SynthesizeMemo(ex) ==
  ReadDone(Call("synthesize_memo", NoArgs), ex,
           MemoRead(synthesize_network_memo(configs, insights, ex)))

ReadResource(uri, ex) ==
  ReadDone(Call("read_resource", [NoArgs EXCEPT !.uri = uri]), ex,
           handle_read_resource(configs, insights, uri, ex))

(***************************************************************************)
(* Steps of a tool invocation.  The handler runs without interruption from *)
(* its start to its await of send_resource_updated and from there to its   *)
(* return; whatever else the event loop has to run, it runs in between.    *)
(***************************************************************************)
\* the coroutine after its first piece
StartedTask(name, arguments, ex, run) ==
  [pc |-> IF run.awaits THEN "suspended" ELSE "done",
   name |-> name, arguments |-> arguments, sent |-> run.sent,
   http |-> IF run.asked THEN ex ELSE NoExchange, asked |-> run.asked,
   outcome |-> run.outcome, awaits |-> run.awaits, raised |-> run.raised,
   text |-> run.text, notes |-> 0]

\* the coroutine after its second piece
EndedTask(task, end) ==
  [task EXCEPT !.pc = "done", !.raised = end.raised, !.text = end.text,
               !.notes = end.notes]

StartDone(t, name, arguments, ex, run) ==
  /\ configs' = run.configs
  /\ insights' = run.insights
  /\ tasks' = [tasks EXCEPT ![t] = StartedTask(name, arguments, ex, run)]
  /\ UNCHANGED <<call, wire, http, outcome, ret, notes>>

\* the event loop runs invocation t from its start to its suspension point or return
ToolStart(t, name, arguments, ex) ==
  /\ tasks[t].pc = "idle"
  /\ StartDone(t, name, arguments, ex,
               handle_call_tool(configs, insights, name, arguments, ex))

\* the event loop resumes invocation t after its await
ToolResume(t, fate) ==
  /\ tasks[t].pc = "suspended"
  /\ tasks' = [tasks EXCEPT ![t] = EndedTask(tasks[t], ToolEnd(tasks[t], fate))]
  /\ UNCHANGED <<configs, insights, call, wire, http, outcome, ret, notes>>

\* One invocation at a time: call, wire, http, outcome, ret and notes follow the
\* invocation as far as it has run, and tasks[1] holds it while it is suspended.
ToolCall(name, arguments) ==
  Call("call_tool", [NoArgs EXCEPT !.name = name, !.arguments = arguments])

CallToolStarted(name, arguments, ex, run) ==
  /\ call' = ToolCall(name, arguments)
  /\ wire' = run.sent
  /\ http' = IF run.asked THEN ex ELSE NoExchange
  /\ outcome' = run.outcome
  /\ ret' = Ended(run.raised, NoValue, <<>>, IF run.awaits THEN "" ELSE run.text)
  /\ notes' = 0
  /\ configs' = run.configs
  /\ insights' = run.insights
  /\ tasks' = IF run.awaits
              THEN [tasks EXCEPT ![1] = StartedTask(name, arguments, ex, run)]
              ELSE tasks

\* handle_call_tool(name, arguments) from its start to its await, or to its return
CallToolStart(name, arguments, ex) ==
  /\ tasks[1].pc = "idle"
  /\ CallToolStarted(name, arguments, ex,
                     handle_call_tool(configs, insights, name, arguments, ex))

CallToolResumed(task, end) ==
  /\ call' = ToolCall(task.name, task.arguments)
  /\ wire' = task.sent
  /\ http' = task.http
  /\ outcome' = task.outcome
  /\ ret' = Ended(end.raised, NoValue, <<>>, end.text)
  /\ notes' = end.notes
  /\ tasks' = [tasks EXCEPT ![1] = IdleTask]
  /\ UNCHANGED <<configs, insights>>

\* the suspended invocation from its await to its return, or to the exception it
\* ends with
CallToolResume(fate) ==
  /\ tasks[1].pc = "suspended"
  /\ CallToolResumed(tasks[1], ToolEnd(tasks[1], fate))

\* Every operation, every exchange and argument shape, over a short history.
Next ==
  \/ \E ex \in Exchanges : GetSwitches(ex)
  \/ \E d \in Dpids, ex \in Exchanges : GetSwitchDesc(d, ex)
  \/ \E in \in FlowStatsInputs :
       GetFlowStats(in.dpid, in.match, in.table_id, in.out_port, in.ex)
  \/ \E in \in TableInputs, ex \in Exchanges :
       Len(configs) < RpcMaxConfigs /\ SetTable(in.dpid, in.flows, ex)
  \/ \E ex \in Exchanges : SynthesizeMemo(ex)
  \/ \E u \in Uris, ex \in MemoExchanges : ReadResource(u, ex)
  \/ \E a \in ToolArguments :
       Len(insights) < RpcMaxInsights /\ CallToolStart("append_insight", a, NoExchange)
  \/ \E fate \in SendFates : CallToolResume(fate)

Spec == Init /\ [][Next]_vars

\* Every operation over a history long enough for the memo's window of RecentLimit.
NextMemo ==
  \/ \E ex \in MemoExchanges : GetSwitches(ex)
  \/ \E d \in Dpids, ex \in MemoExchanges : GetSwitchDesc(d, ex)
  \/ \E d \in Dpids, ex \in MemoExchanges : GetFlowStats(d, JNull, JNull, JNull, ex)
  \/ \E ex \in MemoExchanges :
       /\ Len(configs) < MaxConfigs
       /\ SetTable(MemoTableInput(Len(configs) + 1).dpid,
                   MemoTableInput(Len(configs) + 1).flows, ex)
  \/ \E ex \in MemoExchanges : SynthesizeMemo(ex)
  \/ \E u \in Uris, ex \in MemoExchanges : ReadResource(u, ex)
  \/ \E a \in MemoToolArguments(Len(insights) + 1) :
       Len(insights) < MaxInsights /\ CallToolStart("append_insight", a, NoExchange)
  \/ \E fate \in SendFates : CallToolResume(fate)

SpecMemo == Init /\ [][NextMemo]_vars

(***************************************************************************)
(* Concurrent dispatch: the framework starts the handlers of several tool  *)
(* invocations on the one event loop; a handler runs from its start to its *)
(* suspension point, and from there to its return, without interruption,   *)
(* and the loop interleaves these pieces freely.  No lock guards configs   *)
(* and insights.                                                           *)
(***************************************************************************)
ConcExchanges ==
  {Response(HttpOk, BodySwitches), Response(HttpOk, BodyError), Response(HttpOk, BodyNumber)}

\* what invocation t asks for: its own switch, its own insight
ConcInvocations(t) ==
  {[name |-> "set_table",
    arguments |-> Dict2("dpid", JStr(ToString(t)), "flows", JList(<<FlowHub>>)),
    ex |-> ex] : ex \in ConcExchanges}
  \cup {[name |-> "append_insight",
          arguments |-> Dict1("insight", JStr("i" \o ToString(t))),
          ex |-> NoExchange]}

NextConc ==
  \/ \E t \in 1..MaxTasks : \E in \in ConcInvocations(t) :
       ToolStart(t, in.name, in.arguments, in.ex)
  \/ \E t \in 1..MaxTasks, fate \in SendFates : ToolResume(t, fate)

SpecConc == Init /\ [][NextConc]_vars

(***************************************************************************)
(* Sequential dispatch: one tool invocation at a time, over every tool     *)
(* name and argument shape.                                                *)
(***************************************************************************)
ToolNames ==
  {"get_switches", "get_switch_desc", "get_flow_stats", "set_table", "append_insight",
   "reboot"}
ArgsDpid == Dict1("dpid", JStr("1"))
ArgsDpidMatch == Dict2("dpid", JStr("1"), "match", Dict1("in_port", JNum("1")))
ArgsTable == Dict2("dpid", JStr("1"), "flows", JList(<<FlowHub>>))
ArgsFlowsOnly == Dict1("flows", JEmptyList)
ArgsInsight == Dict1("insight", JStr("x"))
ToolCallArguments ==
  {JNull, JEmptyDict, ArgsDpid, ArgsDpidMatch, ArgsTable, ArgsFlowsOnly, ArgsInsight}
ToolExchanges ==
  {TransportFailure(ConnectionRefusedMsg), Response(HttpOk, BodySwitches),
   Response(HttpOk, BodyError), Response(HttpOk, BodyList), Response(HttpOk, BodyNumber),
   Response(500, BodyPlain)}

\* every name with every argument shape, and every complete invocation with every
\* exchange
ToolInputs ==
  {[name |-> n, arguments |-> a, ex |-> Response(HttpOk, BodySwitches)] :
     n \in ToolNames, a \in ToolCallArguments}
  \cup {[name |-> in.name, arguments |-> in.arguments, ex |-> ex] :
          in \in {[name |-> "get_switches", arguments |-> JNull],
                  [name |-> "get_switch_desc", arguments |-> ArgsDpid],
                  [name |-> "get_flow_stats", arguments |-> ArgsDpidMatch],
                  [name |-> "set_table", arguments |-> ArgsTable],
                  [name |-> "append_insight", arguments |-> ArgsInsight]},
          ex \in ToolExchanges}

\* the notification of either invocation can fail
NextTool ==
  \/ \E in \in ToolInputs :
       /\ in.name = "set_table" => Len(configs) < RpcMaxConfigs
       /\ in.name = "append_insight" => Len(insights) < RpcMaxInsights
       /\ CallToolStart(in.name, in.arguments, in.ex)
  \/ \E fate \in SendFates : CallToolResume(fate)

SpecTool == Init /\ [][NextTool]_vars

(***************************************************************************)
(* Properties.                                                             *)
(***************************************************************************)
FacadeOps == {"get_switches", "get_switch_desc", "get_flow_stats", "set_table"}
EmptyDefault(op) ==
  IF op \in {"get_switches", "get_flow_stats"} THEN JEmptyList ELSE JEmptyDict

\* C1: every set_table call whose raw outcome contains no `error` key appends exactly
\* one record to configs: the stored records keep their positions and the new last
\* record carries the call's dpid and flows.
C1_AppendsOnNoError ==
  [][(call'.op = "set_table" /\ ~HasKey(outcome', "error"))
       => /\ Len(configs') = Len(configs) + 1
          /\ SubSeq(configs', 1, Len(configs)) = configs
          /\ configs'[Len(configs')].dpid = call'.dpid
          /\ configs'[Len(configs')].flows = call'.flows]_vars

\* C2 as claimed: a set_table call whose raw outcome contains an `error` key leaves
\* configs and insights as they were and returns the empty mapping.
C2_ErrorReturnsEmpty ==
  [][(call'.op = "set_table" /\ HasKey(outcome', "error"))
       => /\ configs' = configs
          /\ insights' = insights
          /\ ret'.raised = ""
          /\ ret'.value = JEmptyDict]_vars

\* C2 as amended: a set_table call whose raw outcome contains an `error` key leaves
\* configs and insights as they were and does not raise; it returns the outcome's
\* `result` value when the outcome also carries one, the empty mapping otherwise.
C2_ErrorLeavesState ==
  [][(call'.op = "set_table" /\ HasKey(outcome', "error"))
       => /\ configs' = configs
          /\ insights' = insights
          /\ ret'.raised = ""
          /\ ret'.value = IF HasKey(outcome', "result")
                          THEN outcome'.map["result"] ELSE JEmptyDict]_vars

C2_Witness ==
  /\ call.op = "set_table"
  /\ HasKey(outcome, "error")
  /\ configs # <<>>
  /\ insights # <<>>
  /\ ret.raised = ""

\* C3: whatever the exchange, the outcome of the RPC client is a mapping with a
\* `result` key or a mapping with `error` and `details` keys.
C3_OutcomeWellFormed ==
  wire # <<>> =>
    /\ IsDict(outcome)
    /\ \/ "result" \in DOMAIN outcome.map
       \/ {"error", "details"} \subseteq DOMAIN outcome.map

\* C4: the outcome is a function of the HTTP exchange alone: the decoded body verbatim
\* on a decodable 200, {error: "HTTP Error: <status>", details: <body text>} on any
\* other status whatever the body, {error: "Connection Error", details: <message>}
\* on a transport failure or an undecodable 200 body.
C4_OutcomeFromExchange ==
  wire # <<>> =>
    /\ http.transport = "fail"
         => outcome = Dict2("error", JStr("Connection Error"), "details", JStr(http.exc))
    /\ (http.transport = "ok" /\ http.status # 200)
         => outcome = Dict2("error", JStr("HTTP Error: " \o ToString(http.status)),
                            "details", JStr(http.text))
    /\ (http.transport = "ok" /\ http.status = 200 /\ JsonLoads(http.text).ok)
         => outcome = JsonLoads(http.text).value
    /\ (http.transport = "ok" /\ http.status = 200 /\ ~JsonLoads(http.text).ok)
         => outcome = Dict2("error", JStr("Connection Error"),
                            "details", JStr(JsonLoads(http.text).msg))

C4_Witness ==
  /\ wire # <<>>
  /\ http.status = 404
  /\ JsonLoads(http.text).ok
  /\ HasKey(JsonLoads(http.text).value, "result")
  /\ ~HasKey(outcome, "result")

\* C5: every facade operation returns the outcome's `result` value when the outcome has
\* a `result` key and its empty default otherwise, and never raises.
C5_UnwrapOrDefault ==
  call.op \in FacadeOps =>
    /\ ret.raised = ""
    /\ ret.value = IF HasKey(outcome, "result")
                   THEN outcome.map["result"] ELSE EmptyDefault(call.op)

\* C6: the params get_flow_stats sends hold dpid, and each of match, table_id and
\* out_port exactly when that argument was given (is not None), with the value given.
C6_ParamsOfProvided ==
  call.op = "get_flow_stats" =>
    /\ Len(wire) = 1
    /\ DOMAIN wire[1].payload.map["params"].map
         = {"dpid"} \cup {k \in {"match", "table_id", "out_port"} : call[k] # JNull}
    /\ wire[1].payload.map["params"].map["dpid"] = JStr(call.dpid)
    /\ \A k \in {"match", "table_id", "out_port"} :
         call[k] # JNull
           => /\ k \in DOMAIN wire[1].payload.map["params"].map
              /\ wire[1].payload.map["params"].map[k] = call[k]

\* C10: a facade operation or a memo synthesis sends exactly one POST to
\* <base_url>/OF/, whatever the outcome, and append_insight sends none.
C10_OneRequestPerCall ==
  /\ call.op \in FacadeOps \cup {"synthesize_memo"}
       => /\ Len(wire) = 1
          /\ wire[1].url = "http://127.0.0.1:8000/OF/"
          /\ wire[1].payload.map["method"]
               = JStr(IF call.op = "synthesize_memo" THEN "get_switches" ELSE call.op)
  /\ (call.op = "call_tool" /\ call.name = "append_insight") => wire = <<>>

C10_Witness ==
  /\ call.op = "set_table"
  /\ http.transport = "fail"
  /\ Len(wire) = 1

\* the position of the first line equal to s, 0 if there is none
LineIndex(lines, s) ==
  IF \E i \in 1..Len(lines) : lines[i] = s
  THEN CHOOSE i \in 1..Len(lines) : lines[i] = s /\ \A j \in 1..(i - 1) : lines[j] # s
  ELSE 0

\* the lines of the section titled `title`: those after the title up to the next
\* blank line or the end of the memo
SectionBody(lines, title) ==
  LET i == LineIndex(lines, title)
      stops == {j \in (i + 1)..Len(lines) : lines[j] = ""}
      last == IF stops = {} THEN Len(lines)
              ELSE (CHOOSE j \in stops : \A k \in stops : j <= k) - 1
  IN IF i = 0 THEN <<>> ELSE SubSeq(lines, i + 1, last)

\* the rendering C7 describes: the min(n, 5) most recent records, oldest first,
\* numbered from 1, each followed by its flow lines
C7_Expected(cfgs) ==
  LET n == Len(cfgs)
      k == IF n < 5 THEN n ELSE 5
  IN Flatten([i \in 1..k |->
                <<"Configuration " \o ToString(i) \o " - Switch "
                  \o cfgs[n - k + i].dpid \o ":">>
                \o [j \in 1..Len(cfgs[n - k + i].flows) |->
                      "  Flow " \o ToString(j) \o ": "
                      \o StrPrefix(JsonDumps(cfgs[n - k + i].flows[j]), 100) \o "..."]])

\* C7: every memo synthesize_memo returns over n stored configurations renders the
\* min(n, 5) most recent ones in append order, numbered 1..min(n, 5), under the title
\* "Recent Flow Configurations:", which is there exactly when n > 0; the stored
\* configurations are left as they were.
C7_RecentFiveRendered ==
  [][(call'.op = "synthesize_memo" /\ ret'.raised = "")
       => /\ configs' = configs
          /\ (LineIndex(ret'.lines, "Recent Flow Configurations:") # 0) <=> (Len(configs) > 0)
          /\ SectionBody(ret'.lines, "Recent Flow Configurations:") = C7_Expected(configs)]_vars

C7_Witness ==
  /\ call.op = "synthesize_memo"
  /\ ret.raised = ""
  /\ Len(configs) = 6
  /\ LineIndex(ret.lines, "Configuration 1 - Switch 2:") # 0
  /\ LineIndex(ret.lines, "Configuration 5 - Switch 6:") # 0
  /\ LineIndex(ret.lines, "Configuration 6 - Switch 6:") = 0

\* C8: every memo synthesize_memo returns ends with the section "Network Insights:"
\* exactly when insights are stored; the section comes after the topology and
\* configuration sections and holds one line "- <insight>" per stored insight, all of
\* them, duplicates included, in append order.
C8_AllInsightsRendered ==
  [][(call'.op = "synthesize_memo" /\ ret'.raised = "")
       => /\ insights' = insights
          /\ (LineIndex(ret'.lines, "Network Insights:") # 0) <=> (insights # <<>>)
          /\ insights # <<>>
               => /\ SubSeq(ret'.lines, LineIndex(ret'.lines, "Network Insights:") + 1,
                            Len(ret'.lines))
                       = [k \in 1..Len(insights) |-> "- " \o insights[k]]
                  /\ LineIndex(ret'.lines, "Network Topology:") # 0
                  /\ LineIndex(ret'.lines, "Network Topology:")
                       < LineIndex(ret'.lines, "Network Insights:")
                  /\ LineIndex(ret'.lines, "Recent Flow Configurations:")
                       < LineIndex(ret'.lines, "Network Insights:")]_vars

C8_Witness ==
  /\ call.op = "synthesize_memo"
  /\ ret.raised = ""
  /\ Len(insights) = 6
  /\ configs # <<>>
  /\ ret.lines[Len(ret.lines)] = "- y"
  /\ LineIndex(ret.lines, "- x") # 0

IsPrefix(a, b) == Len(a) <= Len(b) /\ SubSeq(b, 1, Len(a)) = a

\* C9: in every step the stored configurations and insights are prefixes of what is
\* stored afterwards; configs changes only in set_table, insights only in
\* append_insight, and the reads change neither.
C9_AppendOnly ==
  [][/\ IsPrefix(configs, configs')
     /\ IsPrefix(insights, insights')
     /\ configs' # configs => call'.op = "set_table"
     /\ insights' # insights => (call'.op = "call_tool" /\ call'.name = "append_insight")
     /\ call'.op \in {"get_switches", "get_switch_desc", "get_flow_stats",
                      "synthesize_memo", "read_resource"}
          => (configs' = configs /\ insights' = insights)]_vars

C9_Witness ==
  /\ call.op = "call_tool"
  /\ call.name = "append_insight"
  /\ Len(insights) >= 3
  /\ Len(configs) >= 3
  /\ notes = 1

\* the invocations that have run their set_table to an outcome without `error` key
ErrorFreeSetTables ==
  {t \in 1..MaxTasks : /\ tasks[t].pc # "idle"
                       /\ tasks[t].name = "set_table"
                       /\ tasks[t].asked
                       /\ ~HasKey(tasks[t].outcome, "error")}
InsightAppends ==
  {t \in 1..MaxTasks : tasks[t].pc # "idle" /\ tasks[t].name = "append_insight"}
AllFinished == \A t \in 1..MaxTasks : tasks[t].pc # "suspended"

\* C11: once the concurrently running invocations have all finished, configs holds
\* exactly one record for each set_table invocation whose outcome had no `error` key
\* and insights exactly one entry for each append_insight invocation, whatever the
\* interleaving.
C11_NoLostUpdate ==
  AllFinished =>
    /\ Len(configs) = Cardinality(ErrorFreeSetTables)
    /\ \A t \in ErrorFreeSetTables :
         Cardinality({i \in 1..Len(configs) : configs[i].dpid = ToString(t)}) = 1
    /\ Len(insights) = Cardinality(InsightAppends)
    /\ \A t \in InsightAppends :
         Cardinality({i \in 1..Len(insights) : insights[i] = "i" \o ToString(t)}) = 1

\* The same over the invocations whose outcome is a mapping.
MappingOutcomes ==
  \A t \in 1..MaxTasks : tasks[t].asked => IsDict(tasks[t].outcome)
NoLostUpdateOnMappings == MappingOutcomes => C11_NoLostUpdate

\* the arguments each tool requires
RequiredArguments(name) ==
  CASE name \in {"get_switch_desc", "get_flow_stats"} -> {"dpid"}
    [] name = "set_table" -> {"dpid", "flows"}
    [] name = "append_insight" -> {"insight"}
    [] OTHER -> {}
KnownTools ==
  {"get_switches", "get_switch_desc", "get_flow_stats", "set_table", "append_insight"}
\* the tool name is unknown or a required argument is not among the arguments
IllFormedCall(c) ==
  \/ c.name \notin KnownTools
  \/ \E k \in RequiredArguments(c.name) : ~HasKey(c.arguments, k)
StartsWith(str, prefix) ==
  Len(str) >= Len(prefix) /\ SubSeq(str, 1, Len(prefix)) = prefix

====
